---- MODULE Spec2Model ----
(***************************************************************************)
(* A model of the falling-block engine of wishuponablock: the shape        *)
(* catalog (assets.py), and the two game loops with their helpers          *)
(* (tetris.py and og_tetris.py).  Definitions that model og_tetris.py      *)
(* carry the prefix og_ where tetris.py has a function of the same name.   *)
(*                                                                         *)
(* Python lists are 0-indexed and TLA+ sequences 1-indexed: list element   *)
(* i is sequence element i + 1.  Times are integer milliseconds, as        *)
(* pygame's Clock.get_rawtime() returns them; fall speeds, which the code  *)
(* writes in seconds (0.27, 0.3, 0.00001), are kept in microseconds so     *)
(* that `fall_time/1000 > fall_speed` is `fall_time * 1000 > fall_speed`.  *)
(***************************************************************************)
EXTENDS Integers, Sequences, FiniteSets, TLC

VARIABLES
    locked_positions,  \* tetris.py main: dict (x, y) -> colour
    matrix,            \* og_tetris.py main: list of rows of colours
    current_piece,     \* Piece: [x, y, piece_name, rotation]
    next_piece,        \* Piece
    bag_of_keys,       \* tetris.py bag_shuffler: keys left in the generator
    current_bag,       \* og_tetris.py Bag.current_bag
    next_bag,          \* og_tetris.py Bag.next_bag
    fall_time,         \* ms since the last gravity step
    fall_speed,        \* fall interval, microseconds
    lock_delay,        \* tetris.py main: ms accumulated at failed gravity steps
    rawtime,           \* what clock.get_rawtime() returns now
    change_piece,      \* the gravity step asked for a lock
    score,
    turn,
    run,               \* the loop condition; "crashed" after an uncaught exception
    drawn,             \* keys drawn so far (history, most recent last)
    result,            \* what the last operation returned / which phase a harness is in
    snapshots,         \* the turn numbers write_snapshot was called with, in order
    waits,             \* per kind: draws of other kinds since its last draw
    replay             \* the generator of a second run started the same way

vars == <<locked_positions, matrix, current_piece, next_piece, bag_of_keys,
          current_bag, next_bag, fall_time, fall_speed, lock_delay, rawtime,
          change_piece, score, turn, run, drawn, result, snapshots, waits,
          replay>>

-----------------------------------------------------------------------------
(* Bounds of the model. *)

\* pieces locked per game before the model stops following the game
MaxLocks == 2
\* the player presses no key until this many pieces have locked
QuietLocks == 1
\* the rotation counter is kept within -MaxRot .. MaxRot
MaxRot == 2
\* the two tick lengths (ms) the clock may report
ShortTick == 20
LongTick == 300
\* how many outcomes of random.shuffle the game loops draw from
NumShuffles == 2

-----------------------------------------------------------------------------
(* assets.py: the shape catalog.  A mask row is the sequence of the        *)
(* characters of its string.  Colours are only ever compared and copied,  *)
(* so each RGB triple is written as a one-letter name: (0, 244, 0) "g",    *)
(* (255, 0, 0) "r", (0, 244, 242) "c", (240, 240, 0) "y", (0, 0, 250) "b", *)
(* (254, 155, 0) "o", (175, 0, 249) "p", and the background (30, 30, 30)   *)
(* of GRID_COLOUR and PLAY_COLOUR ".".                                     *)

shapes ==
  [S |-> [rotations |-> <<
            << <<".","0","0">>, <<"0","0",".">>, <<".",".",".">> >>,
            << <<".","0",".">>, <<".","0","0">>, <<".",".","0">> >>,
            << <<".",".",".">>, <<".","0","0">>, <<"0","0",".">> >>,
            << <<"0",".",".">>, <<"0","0",".">>, <<".","0",".">> >> >>,
          colour |-> "g"],
   Z |-> [rotations |-> <<
            << <<"0","0",".">>, <<".","0","0">>, <<".",".",".">> >>,
            << <<".",".","0">>, <<".","0","0">>, <<".","0",".">> >>,
            << <<".",".",".">>, <<"0","0",".">>, <<".","0","0">> >>,
            << <<".","0",".">>, <<"0","0",".">>, <<"0",".",".">> >> >>,
          colour |-> "r"],
   I |-> [rotations |-> <<
            << <<".",".",".",".">>, <<"0","0","0","0">>,
               <<".",".",".",".">>, <<".",".",".",".">> >>,
            << <<".",".","0",".">>, <<".",".","0",".">>,
               <<".",".","0",".">>, <<".",".","0",".">> >>,
            << <<".",".",".",".">>, <<".",".",".",".">>,
               <<"0","0","0","0">>, <<".",".",".",".">> >>,
            << <<".","0",".",".">>, <<".","0",".",".">>,
               <<".","0",".",".">>, <<".","0",".",".">> >> >>,
          colour |-> "c"],
   O |-> [rotations |-> <<
            << <<".","0","0",".">>, <<".","0","0",".">>,
               <<".",".",".",".">>, <<".",".",".",".">> >>,
            << <<".","0","0",".">>, <<".","0","0",".">>,
               <<".",".",".",".">>, <<".",".",".",".">> >>,
            << <<".","0","0",".">>, <<".","0","0",".">>,
               <<".",".",".",".">>, <<".",".",".",".">> >>,
            << <<".","0","0",".">>, <<".","0","0",".">>,
               <<".",".",".",".">>, <<".",".",".",".">> >> >>,
          colour |-> "y"],
   J |-> [rotations |-> <<
            << <<"0",".",".">>, <<"0","0","0">>, <<".",".",".">> >>,
            << <<".","0","0">>, <<".","0",".">>, <<".","0",".">> >>,
            << <<".",".",".">>, <<"0","0","0">>, <<".",".","0">> >>,
            << <<".","0",".">>, <<".","0",".">>, <<"0","0",".">> >> >>,
          colour |-> "b"],
   L |-> [rotations |-> <<
            << <<".",".","0">>, <<"0","0","0">>, <<".",".",".">> >>,
            << <<".","0">>,     <<".","0",".">>, <<".","0","0">> >>,
            << <<".",".",".">>, <<"0","0","0">>, <<"0",".",".">> >>,
            << <<"0","0",".">>, <<".","0",".">>, <<".","0",".">> >> >>,
          colour |-> "o"],
   T |-> [rotations |-> <<
            << <<".","0",".">>, <<"0","0","0">>, <<".",".",".">> >>,
            << <<".","0">>,     <<".","0","0">>, <<".","0",".">> >>,
            << <<".",".",".">>, <<"0","0","0">>, <<".","0",".">> >>,
            << <<".","0",".">>, <<"0","0",".">>, <<".","0",".">> >> >>,
          colour |-> "p"]]

\* tetris.py bag_shuffler / og_tetris.py Bag.__init__: all_keys
all_keys == <<"S", "Z", "I", "O", "J", "L", "T">>

Kinds == {all_keys[n] : n \in 1..Len(all_keys)}

\* Piece(x, y, shape): rotation starts at 0
Piece(x, y, piece_name) ==
  [x |-> x, y |-> y, piece_name |-> piece_name, rotation |-> 0]

\* the (i, j) of list-of-strings `format` whose character is '0'
FilledCells(format) ==
  {ij \in (0..3) \X (0..3) :
     /\ ij[1] + 1 <= Len(format)
     /\ ij[2] + 1 <= Len(format[ij[1] + 1])
     /\ format[ij[1] + 1][ij[2] + 1] = "0"}

\* the filled cells of every mask of the catalog
filled ==
  [k \in Kinds |->
     [r \in DOMAIN shapes[k].rotations |-> FilledCells(shapes[k].rotations[r])]]

-----------------------------------------------------------------------------
(* tetris.py *)

LOCK_DELAY == 40
GRID_COLOUR == "."
GRID_WIDTH == 10
GRID_HEIGHT == 20
\* bag_shuffler yields Piece(5, 3, current_piece)
SPAWN_X == 5
SPAWN_Y == 3
\* fall_speed = 0.27 and fall_speed = 0.00001 (seconds), in microseconds
BASE_FALL_SPEED == 270000
HARD_DROP_FALL_SPEED == 10

create_grid(locked_pos) ==
  [i \in 0..(GRID_HEIGHT - 1) |->
     [j \in 0..(GRID_WIDTH - 1) |->
        IF <<j, i>> \in DOMAIN locked_pos THEN locked_pos[<<j, i>>]
                                          ELSE GRID_COLOUR]]

\* a faulty lookup that takes the remainder of the size of the rotation
\* counter, not of the counter
convert_shape_format_by_magnitude(shape) ==
  LET size == IF shape.rotation < 0 THEN -shape.rotation ELSE shape.rotation
  IN  {<<shape.x + ij[2] - 2, shape.y + ij[1] - 4>> :
          ij \in filled[shape.piece_name]
                       [(size % Len(shapes[shape.piece_name].rotations)) + 1]}

\* the positions list, as the set of its (column, row) pairs
convert_shape_format(shape) ==
  {<<shape.x + ij[2] - 2, shape.y + ij[1] - 4>> :
      ij \in filled[shape.piece_name]
                   [(shape.rotation % Len(shapes[shape.piece_name].rotations)) + 1]}

\* a faulty valid_space that accepts every cell of the grid, free or not
valid_space_on_any_cell(shape, grid) ==
  \A pos \in convert_shape_format(shape) :
     pos \notin (0..(GRID_WIDTH - 1)) \X (0..(GRID_HEIGHT - 1)) => ~(pos[2] > -1)

valid_space(shape, grid) ==
  LET accepted_pos == {ji \in (0..(GRID_WIDTH - 1)) \X (0..(GRID_HEIGHT - 1)) :
                          grid[ji[2]][ji[1]] = GRID_COLOUR}
  IN  \A pos \in convert_shape_format(shape) :
         pos \notin accepted_pos => ~(pos[2] > -1)

check_lost(positions) ==
  \E pos \in DOMAIN positions : pos[2] < 1


\* one pass of `for j in range(len(row)): del locked[(j, i)]` over the full rows
DeleteRows(locked, rows) ==
  LET keep == {k \in DOMAIN locked :
                 ~(k[2] \in rows /\ k[1] \in 0..(GRID_WIDTH - 1))}
  IN  [k \in keep |-> locked[k]]

\* `locked[(x, y + inc)] = locked.pop((x, y))` for every key of row y
MoveRow(locked, y, inc) ==
  LET row  == {k \in DOMAIN locked : k[2] = y}
      dest == {<<k[1], y + inc>> : k \in row}
  IN  [k \in ((DOMAIN locked) \ row) \cup dest |->
         IF k \in dest THEN locked[<<k[1], y>>] ELSE locked[k]]

\* the loop over sorted(list(locked), key=lambda x: x[1])[::-1]: rows from
\* the highest y to the lowest, moving those with y < ind
RECURSIVE ShiftRows(_, _, _, _)
ShiftRows(locked, y, ymin, inc) ==
  IF y < ymin THEN locked
  ELSE ShiftRows(MoveRow(locked, y, inc), y - 1, ymin, inc)

SetMin(S) == CHOOSE n \in S : \A m \in S : n <= m

\* clear_rows(grid, locked): [inc: the returned count, locked: the dict after]
clear_rows(grid, locked) ==
  LET full == {i \in DOMAIN grid :
                 \A j \in DOMAIN grid[i] : grid[i][j] # GRID_COLOUR}
      inc  == Cardinality(full)
      ind  == SetMin(full)
      del  == DeleteRows(locked, full)
      ys   == {k[2] : k \in DOMAIN del}
  IN  [inc    |-> inc,
       locked |-> IF inc > 0 /\ ys # {}
                  THEN ShiftRows(del, ind - 1, SetMin(ys), inc)
                  ELSE del]

\* every order random.shuffle can leave all_keys in
AllShuffles ==
  {[n \in 1..Len(all_keys) |-> all_keys[p[n]]] :
      p \in Permutations(1..Len(all_keys))}

\* the shuffles the game loops draw from: the first NumShuffles of these
\* orders (pop() takes from the end)
ShuffleList ==
  << <<"S", "Z", "J", "L", "T", "I", "O">>,
     <<"I", "O", "J", "L", "Z", "S", "T">>,
     <<"S", "O", "J", "L", "T", "Z", "I">>,
     <<"I", "Z", "S", "T", "L", "O", "J">>,
     <<"O", "T", "S", "Z", "I", "J", "L">> >>

GameShuffles == {ShuffleList[n] : n \in 1..NumShuffles}

\* a faulty generator that draws with replacement: the last key of a fresh
\* shuffle every time
bag_shuffler_with_replacement(bag, shuffled) ==
  [key |-> shuffled[Len(shuffled)], bag |-> bag]

\* a faulty generator that refills while one key is still in the bag
bag_shuffler_refilling_early(bag, shuffled) ==
  LET b == IF Len(bag) <= 1 THEN shuffled ELSE bag
  IN  [key |-> b[Len(b)], bag |-> SubSeq(b, 1, Len(b) - 1)]

\* one next(shuffler): refill and shuffle when the bag is empty, then pop()
\* from the end.  `shuffled` is what random.shuffle leaves if it runs.
bag_shuffler(bag, shuffled) ==
  LET b == IF bag = <<>> THEN shuffled ELSE bag
  IN  [key |-> b[Len(b)], bag |-> SubSeq(b, 1, Len(b) - 1)]

\* a faulty generator that yields its pieces one row below the spawn anchor
get_shape_below_the_anchor(key) == Piece(SPAWN_X, SPAWN_Y + 1, key)

get_shape(key) == Piece(SPAWN_X, SPAWN_Y, key)


\* locked_positions = {}
EmptyDict == [k \in {} |-> GRID_COLOUR]

Durations == {ShortTick, LongTick}

\* variables a specification does not use keep these values
Unused == [matrix |-> <<>>, bag |-> <<>>, drawn |-> <<>>, result |-> "none",
           waits |-> <<>>, replay |-> <<>>]

\* main, up to the event loop of the first iteration: two get_shape() calls
\* on a fresh generator; fall_time += get_rawtime() adds 0 and no gravity
\* step runs; clock.tick() sets the rawtime of the first frame.
Init ==
  \E shuffled \in GameShuffles, dt \in Durations :
     LET first  == bag_shuffler(<<>>, shuffled)
         second == bag_shuffler(first.bag, shuffled)
     IN  /\ locked_positions = EmptyDict
         /\ current_piece = get_shape(first.key)
         /\ next_piece = get_shape(second.key)
         /\ bag_of_keys = second.bag
         /\ fall_time = 0
         /\ fall_speed = BASE_FALL_SPEED
         /\ lock_delay = 0
         /\ rawtime = dt
         /\ change_piece = FALSE
         /\ score = 0
         /\ turn = 1
         /\ run = TRUE
         /\ matrix = Unused.matrix
         /\ current_bag = Unused.bag
         /\ next_bag = Unused.bag
         /\ drawn = Unused.drawn
         /\ result = "running"
         /\ snapshots = <<>>
         /\ waits = Unused.waits
         /\ replay = Unused.replay

og_unchanged ==
  UNCHANGED <<matrix, current_bag, next_bag, drawn, result, waits, replay>>

\* what an event handler leaves alone besides the piece
event_unchanged ==
  UNCHANGED <<locked_positions, next_piece, bag_of_keys, fall_time, lock_delay,
              rawtime, change_piece, score, turn, run, snapshots>>

\* lines 346-351: the piece painted on the grid the frame built (cells with
\* y > -1; valid_space has kept their x within the row)
draw_piece(grid, piece) ==
  LET shape_pos == convert_shape_format(piece)
  IN  [i \in DOMAIN grid |->
         [j \in DOMAIN grid[i] |->
            IF <<j, i>> \in shape_pos THEN shapes[piece.piece_name].colour
                                      ELSE grid[i][j]]]

\* lines 361-363: locked_positions[p] = current_piece.color for pos in shape_pos
lock(locked, piece) ==
  LET shape_pos == convert_shape_format(piece)
  IN  [p \in (DOMAIN locked) \cup shape_pos |->
         IF p \in shape_pos THEN shapes[piece.piece_name].colour ELSE locked[p]]

\* a recorder that names every file turn_1.json (a faulty recorder)
write_snapshot_under_one_key(written, turn_no) == Append(written, 1)

\* write_snapshot(snapshot, snapshot_path, turn) when open() and json.dump
\* succeed: the file turn_<turn>.json of this game's directory is written
write_snapshot(written, turn_no) == Append(written, turn_no)

\* a lock delay that is over at the first failed gravity step (a faulty test)
lock_delay_over_at_once(ld) == ld > 0

\* line 307: if lock_delay >= LOCK_DELAY
lock_delay_over(ld) == ld >= LOCK_DELAY

\* One pass of `while run` from after the event loop of one frame to the
\* event loop of the next: lines 346-380 (paint, lock if change_piece,
\* check_lost), then lines 291-309 (timers, gravity step).  dt is what
\* clock.tick() measures; shuffled what random.shuffle leaves if it runs.
tick(dt, shuffled) ==
  /\ run = TRUE
  /\ turn <= MaxLocks
  /\ LET grid    == draw_piece(create_grid(locked_positions), current_piece)
         cleared == clear_rows(grid, lock(locked_positions, current_piece))
         draw    == bag_shuffler(bag_of_keys, shuffled)
         locked1 == IF change_piece THEN cleared.locked ELSE locked_positions
         piece1  == IF change_piece THEN next_piece ELSE current_piece
         speed1  == IF change_piece THEN BASE_FALL_SPEED ELSE fall_speed
         ft      == fall_time + rawtime
         fall    == ft * 1000 > speed1
         moved   == [piece1 EXCEPT !.y = @ + 1]
         blocked == ~valid_space(moved, create_grid(locked1)) /\ moved.y > 0
         ld      == lock_delay + dt
     IN  /\ locked_positions' = locked1
         /\ next_piece' = IF change_piece THEN get_shape(draw.key) ELSE next_piece
         /\ bag_of_keys' = IF change_piece THEN draw.bag ELSE bag_of_keys
         /\ fall_speed' = speed1
         /\ turn' = IF change_piece THEN turn + 1 ELSE turn
         /\ score' = IF change_piece THEN score + cleared.inc * 10 ELSE score
         /\ snapshots' = IF change_piece THEN write_snapshot(snapshots, turn)
                                         ELSE snapshots
         /\ IF check_lost(locked1)
            THEN /\ run' = FALSE
                 /\ current_piece' = piece1
                 /\ change_piece' = FALSE
                 /\ UNCHANGED <<fall_time, lock_delay, rawtime>>
            ELSE /\ run' = TRUE
                 /\ rawtime' = dt
                 /\ fall_time' = IF fall THEN 0 ELSE ft
                 /\ current_piece' = IF fall /\ ~blocked THEN moved ELSE piece1
                 /\ lock_delay' = IF fall /\ blocked
                                  THEN (IF lock_delay_over(ld) THEN 0 ELSE ld)
                                  ELSE lock_delay
                 /\ change_piece' = (fall /\ blocked /\ lock_delay_over(ld))
  /\ og_unchanged

\* The same pass when write_snapshot raises (open() or json.dump fails, as
\* when os.makedirs failed at line 286 and the directory is missing): the
\* call of line 359 is in no try block, the exception leaves main before the
\* piece is locked.
snapshot_fails ==
  /\ run = TRUE
  /\ turn <= MaxLocks
  /\ change_piece
  /\ run' = FALSE
  /\ result' = "OSError"
  /\ UNCHANGED <<locked_positions, matrix, current_piece, next_piece,
                 bag_of_keys, current_bag, next_bag, fall_time, fall_speed,
                 lock_delay, rawtime, change_piece, score, turn, drawn,
                 snapshots, waits, replay>>

\* keys followed although the loop has ended (a faulty event loop)
keys_followed_after_the_loop == QuietLocks < turn

\* the model follows key presses once QuietLocks pieces have locked, and
\* the game for MaxLocks pieces
keys_followed == run = TRUE /\ QuietLocks < turn /\ turn <= MaxLocks

\* attempt `candidate`; `reverted` is the piece after the handler's undo
attempt(candidate, reverted) ==
  IF valid_space(candidate, create_grid(locked_positions)) THEN candidate
                                                           ELSE reverted

key_left ==
  /\ keys_followed
  /\ LET c == [current_piece EXCEPT !.x = @ - 1]
     IN  current_piece' = attempt(c, [c EXCEPT !.x = @ + 1])
  /\ UNCHANGED fall_speed /\ event_unchanged /\ og_unchanged

key_right ==
  /\ keys_followed
  /\ LET c == [current_piece EXCEPT !.x = @ + 1]
     IN  current_piece' = attempt(c, [c EXCEPT !.x = @ - 1])
  /\ UNCHANGED fall_speed /\ event_unchanged /\ og_unchanged

\* a faulty Down handler that bakes the piece into locked_positions when
\* the move is rejected
key_down_baking_when_rejected ==
  /\ keys_followed
  /\ LET c == [current_piece EXCEPT !.y = @ + 1]
     IN  /\ current_piece' = attempt(c, [c EXCEPT !.y = @ - 1])
         /\ locked_positions' =
               IF valid_space(c, create_grid(locked_positions))
               THEN locked_positions
               ELSE lock(locked_positions, current_piece)
  /\ UNCHANGED <<fall_speed, next_piece, bag_of_keys, fall_time, lock_delay,
                 rawtime, change_piece, score, turn, run, snapshots>>
  /\ og_unchanged

key_down ==
  /\ keys_followed
  /\ LET c == [current_piece EXCEPT !.y = @ + 1]
     IN  current_piece' = attempt(c, [c EXCEPT !.y = @ - 1])
  /\ UNCHANGED fall_speed /\ event_unchanged /\ og_unchanged

key_rotate_clockwise ==
  /\ keys_followed
  /\ current_piece.rotation + 1 <= MaxRot
  /\ LET c == [current_piece EXCEPT !.rotation = @ + 1]
     IN  current_piece' = attempt(c, [c EXCEPT !.rotation = @ - 1])
  /\ UNCHANGED fall_speed /\ event_unchanged /\ og_unchanged

key_rotate_counterclockwise ==
  /\ keys_followed
  /\ current_piece.rotation - 1 >= -MaxRot
  /\ LET c == [current_piece EXCEPT !.rotation = @ - 1]
     IN  current_piece' = attempt(c, [c EXCEPT !.rotation = @ + 1])
  /\ UNCHANGED fall_speed /\ event_unchanged /\ og_unchanged

\* rotation -= len(shape)//2, undone by += len(shape)//2
key_rotate_180 ==
  /\ keys_followed
  /\ LET half == Len(shapes[current_piece.piece_name].rotations) \div 2
         c    == [current_piece EXCEPT !.rotation = @ - half]
     IN  /\ c.rotation >= -MaxRot
         /\ current_piece' = attempt(c, [c EXCEPT !.rotation = @ + half])
  /\ UNCHANGED fall_speed /\ event_unchanged /\ og_unchanged

\* a hard drop with line 344 (`change_piece = True`) not commented out
key_hard_drop_locking_at_once ==
  /\ keys_followed
  /\ fall_speed' = HARD_DROP_FALL_SPEED
  /\ change_piece' = TRUE
  /\ UNCHANGED <<current_piece, locked_positions, next_piece, bag_of_keys,
                 fall_time, lock_delay, rawtime, score, turn, run, snapshots>>
  /\ og_unchanged

key_hard_drop ==
  /\ keys_followed
  /\ fall_speed' = HARD_DROP_FALL_SPEED
  /\ UNCHANGED current_piece /\ event_unchanged /\ og_unchanged

Next ==
  \/ \E dt \in Durations, shuffled \in GameShuffles : tick(dt, shuffled)
  \/ snapshot_fails
  \/ key_left
  \/ key_right
  \/ key_down
  \/ key_rotate_clockwise
  \/ key_rotate_counterclockwise
  \/ key_rotate_180
  \/ key_hard_drop

Spec == Init /\ [][Next]_vars


-----------------------------------------------------------------------------
(* og_tetris.py *)

PLAY_COLOUR == "."
MATRIX_WIDTH == 10
MATRIX_HEIGHT == 30
PIECE_SPAWNING_X == 5
PIECE_SPAWNING_Y == 17
\* fall_speed = 0.3 (seconds), in microseconds
OG_BASE_FALL_SPEED == 300000
\* valid_space: `if i + piece.y > 29`
OG_LAST_ROW == 29
\* check_lost: `current_piece.y < 10`; the gravity step has the same test
OG_TOP_ROW == 10

\* the piece is followed for at most this many rows below its spawn row
MaxFall == 13

\* a Python list index: n is in range of a list of length len, and the
\* (1-based) element it selects, negative n counting from the end
PyInRange(n, len) == -len <= n /\ n <= len - 1
PyIndex(n, len) == (n % len) + 1

\* Piece.shape_to_colours(shape, colour): per rotation, rows of colours.
\* Piece.__init__ stores it as self.image.
shape_to_colours(shape, colour) ==
  [r \in DOMAIN shape |->
     [y \in DOMAIN shape[r] |->
        [x \in DOMAIN shape[r][y] |->
           IF shape[r][y][x] = "0" THEN colour ELSE PLAY_COLOUR]]]

\* self.image of the pieces of each kind
images ==
  [k \in Kinds |-> shape_to_colours(shapes[k].rotations, shapes[k].colour)]

\* piece.image[piece.rotation % 4]
image(piece) == images[piece.piece_name][(piece.rotation % 4) + 1]

\* the (i, j) that `for i, row in enumerate(...): for j, cell in enumerate(row)`
\* visits
ImageCells(img) ==
  {ij \in (0..3) \X (0..3) :
     ij[1] + 1 <= Len(img) /\ ij[2] + 1 <= Len(img[ij[1] + 1])}

\* create_matrix()
create_matrix ==
  [j \in 1..MATRIX_HEIGHT |-> [i \in 1..MATRIX_WIDTH |-> PLAY_COLOUR]]

\* valid_space(piece, matrix): "True", "False", or "IndexError" when a list
\* index is out of range.  The cells are visited row by row and the first
\* one that returns or raises decides.
og_valid_space(piece, mat) ==
  LET img == image(piece)
      cells == {ij \in ImageCells(img) : img[ij[1] + 1][ij[2] + 1] # PLAY_COLOUR}
      row(ij) == ij[1] + piece.y
      col(ij) == ij[2] + piece.x
      outcome(ij) ==
        IF row(ij) > OG_LAST_ROW THEN "False"
        ELSE IF ~PyInRange(row(ij), Len(mat)) THEN "IndexError"
        ELSE IF ~PyInRange(col(ij), Len(mat[PyIndex(row(ij), Len(mat))]))
             THEN "IndexError"
        ELSE IF mat[PyIndex(row(ij), Len(mat))]
                   [PyIndex(col(ij), Len(mat[PyIndex(row(ij), Len(mat))]))]
                  # PLAY_COLOUR
             THEN "False"
        ELSE "pass"
      stops == {ij \in cells : outcome(ij) # "pass"}
      first == CHOOSE ij \in stops :
                  \A other \in stops :
                     ij[1] < other[1] \/ (ij[1] = other[1] /\ ij[2] <= other[2])
  IN  IF stops = {} THEN "True" ELSE outcome(first)

\* lines 382-385: every cell of the image, coloured or not, is written
\* into the matrix at (y + i, x + j)
og_lock_raises(mat, piece) ==
  \E ij \in ImageCells(image(piece)) :
     \/ ~PyInRange(piece.y + ij[1], Len(mat))
     \/ ~PyInRange(piece.x + ij[2],
                   Len(mat[PyIndex(piece.y + ij[1], Len(mat))]))

og_lock(mat, piece) ==
  LET img == image(piece)
      writes(r, c) ==
        {ij \in ImageCells(img) :
           /\ PyInRange(piece.y + ij[1], Len(mat))
           /\ PyIndex(piece.y + ij[1], Len(mat)) = r
           /\ PyInRange(piece.x + ij[2], Len(mat[r]))
           /\ PyIndex(piece.x + ij[2], Len(mat[r])) = c}
  IN  [r \in DOMAIN mat |->
         [c \in DOMAIN mat[r] |->
            IF writes(r, c) = {} THEN mat[r][c]
            ELSE LET ij == CHOOSE w \in writes(r, c) : TRUE
                 IN  img[ij[1] + 1][ij[2] + 1]]]

\* scoring(cleared_rows): `pass`
scoring(cleared_rows) == "None"

\* a faulty clear_rows that takes the full rows out and puts none in
og_clear_rows_without_fresh_rows(mat) ==
  [matrix |-> SelectSeq(mat, LAMBDA row : \E c \in DOMAIN row :
                                             row[c] = PLAY_COLOUR),
   score  |-> "None"]

\* clear_rows(matrix): [matrix: new_matrix, score: what scoring returned]
og_clear_rows(mat) ==
  LET rows_to_clear ==
        {i \in 0..(Len(mat) - 1) :
           \A j \in DOMAIN mat[i + 1] : mat[i + 1][j] # PLAY_COLOUR}
      fresh == [n \in 1..Cardinality(rows_to_clear) |->
                  [i \in 1..MATRIX_WIDTH |-> PLAY_COLOUR]]
      kept  == SelectSeq([n \in 1..Len(mat) |-> n - 1],
                         LAMBDA i : i \notin rows_to_clear)
  IN  [matrix |-> fresh \o [n \in 1..Len(kept) |-> mat[kept[n] + 1]],
       score  |-> scoring(rows_to_clear)]

og_check_lost(piece) == piece.y < OG_TOP_ROW

\* a faulty Bag that does not refill when the pop empties current_bag
Bag_next_without_refill(cur, nxt, shuffled) ==
  [key |-> cur[Len(cur)], current_bag |-> SubSeq(cur, 1, Len(cur) - 1),
   next_bag |-> nxt]

\* a faulty Bag that reads the last key without taking it out
Bag_next_without_pop(cur, nxt, shuffled) ==
  [key |-> cur[Len(cur)], current_bag |-> cur, next_bag |-> nxt]

\* a faulty Bag that shuffles the pool it installs as current at a refill
Bag_next_shuffling_at_refill(cur, nxt, shuffled) ==
  LET popped == SubSeq(cur, 1, Len(cur) - 1)
  IN  [key         |-> cur[Len(cur)],
       current_bag |-> IF popped = <<>> THEN shuffled ELSE popped,
       next_bag    |-> nxt]

\* Bag.__next__ with refill_bag: pop() from the end of current_bag; when
\* that empties it, next_bag becomes current and a fresh shuffle is held
Bag_next(cur, nxt, shuffled) ==
  LET popped == SubSeq(cur, 1, Len(cur) - 1)
  IN  [key         |-> cur[Len(cur)],
       current_bag |-> IF popped = <<>> THEN nxt ELSE popped,
       next_bag    |-> IF popped = <<>> THEN shuffled ELSE nxt]

get_next_piece(key) == Piece(PIECE_SPAWNING_X, PIECE_SPAWNING_Y, key)


\* og_tetris.py has no lock delay: its loop is followed with long ticks,
\* of one and of two LongTick
og_Durations == {LongTick, 2 * LongTick}

\* what the tetris.py-only variables hold under the og_tetris.py loop
tetris_unchanged ==
  UNCHANGED <<locked_positions, bag_of_keys, lock_delay, drawn, waits, replay>>

\* main, up to the event loop of the first iteration: Bag() shuffles both
\* bags (the n-th and the following order of ShuffleList), two pieces are
\* drawn, fall_time += get_rawtime() adds 0 and no gravity step runs.
og_Init ==
  \E n \in 1..NumShuffles, dt \in og_Durations :
     LET first  == Bag_next(ShuffleList[n], ShuffleList[n + 1], ShuffleList[n])
         second == Bag_next(first.current_bag, first.next_bag, ShuffleList[n])
     IN  /\ matrix = create_matrix
         /\ current_piece = get_next_piece(first.key)
         /\ next_piece = get_next_piece(second.key)
         /\ current_bag = second.current_bag
         /\ next_bag = second.next_bag
         /\ fall_time = 0
         /\ fall_speed = OG_BASE_FALL_SPEED
         /\ rawtime = dt
         /\ change_piece = FALSE
         /\ score = 0
         /\ turn = 1
         /\ run = TRUE
         /\ result = "running"
         /\ locked_positions = EmptyDict
         /\ bag_of_keys = Unused.bag
         /\ lock_delay = 0
         /\ drawn = Unused.drawn
         /\ snapshots = <<>>
         /\ waits = Unused.waits
         /\ replay = Unused.replay

\* MaxFall rows below the spawn row every cell of the piece is below the
\* last row, and stays there: valid_space returns False at the first cell
\* whatever y is, and every further gravity step finds the same.  The
\* model keeps this one y for all of them (y itself grows without bound).
og_far_below(piece) == piece.y >= PIECE_SPAWNING_Y + MaxFall

\* the key presses are followed while the piece is above that
og_followed ==
  /\ run = TRUE
  /\ turn <= MaxLocks
  /\ current_piece.y < PIECE_SPAWNING_Y + MaxFall

\* an uncaught exception ends main: the piece keeps the attempted state
og_crash(piece, exception) ==
  /\ current_piece' = piece
  /\ run' = FALSE
  /\ result' = exception

og_event_unchanged ==
  UNCHANGED <<matrix, next_piece, current_bag, next_bag, rawtime, change_piece,
              score, turn, snapshots>>

\* One pass of `while run` from after the event loop of one frame to the
\* event loop of the next: lines 375-407 (lock if change_piece, lost), then
\* lines 322-338 (timer, gravity step).
og_tick(dt, shuffled) ==
  /\ run = TRUE
  /\ turn <= MaxLocks
  /\ LET draw    == Bag_next(current_bag, next_bag, shuffled)
         cleared == og_clear_rows(og_lock(matrix, current_piece))
         piece1  == IF change_piece THEN next_piece ELSE current_piece
         matrix1 == IF change_piece THEN cleared.matrix ELSE matrix
         speed1  == IF change_piece THEN OG_BASE_FALL_SPEED ELSE fall_speed
         ft      == (IF change_piece THEN 0 ELSE fall_time) + rawtime
         fall    == ft * 1000 > speed1
         moved   == [piece1 EXCEPT !.y = @ + 1]
         valid   == og_valid_space(moved, matrix1)
         blocked == valid = "False" /\ moved.y < OG_TOP_ROW
         stepped == IF og_far_below(piece1) THEN piece1 ELSE moved
     IN  IF change_piece /\ og_lock_raises(matrix, current_piece)
         THEN /\ og_crash(current_piece, "IndexError")
              /\ UNCHANGED <<matrix, next_piece, current_bag, next_bag, fall_time,
                             fall_speed, rawtime, change_piece, score, turn>>
         ELSE IF change_piece /\ cleared.score = "None"
         THEN \* score += delta_score with delta_score None
              /\ og_crash(next_piece, "TypeError")
              /\ matrix' = cleared.matrix
              /\ next_piece' = get_next_piece(draw.key)
              /\ current_bag' = draw.current_bag
              /\ next_bag' = draw.next_bag
              /\ fall_speed' = OG_BASE_FALL_SPEED
              /\ fall_time' = 0
              /\ turn' = turn + 1
              /\ change_piece' = FALSE
              /\ UNCHANGED <<rawtime, score>>
         ELSE /\ matrix' = matrix1
              /\ next_piece' = IF change_piece THEN get_next_piece(draw.key)
                                               ELSE next_piece
              /\ current_bag' = IF change_piece THEN draw.current_bag ELSE current_bag
              /\ next_bag' = IF change_piece THEN draw.next_bag ELSE next_bag
              /\ fall_speed' = speed1
              /\ turn' = IF change_piece THEN turn + 1 ELSE turn
              /\ score' = IF change_piece THEN score + cleared.score ELSE score
              /\ IF change_piece /\ og_check_lost(current_piece)
                 THEN /\ run' = FALSE
                      /\ current_piece' = piece1
                      /\ fall_time' = 0
                      /\ change_piece' = FALSE
                      /\ UNCHANGED <<rawtime, result>>
                 ELSE /\ rawtime' = dt
                      /\ fall_time' = IF fall THEN 0 ELSE ft
                      /\ IF fall /\ valid = "IndexError"
                         THEN og_crash(moved, "IndexError") /\ change_piece' = FALSE
                         ELSE /\ current_piece' = IF fall /\ ~blocked THEN stepped
                                                                     ELSE piece1
                              /\ change_piece' = (fall /\ blocked)
                              /\ UNCHANGED <<run, result>>
  /\ snapshots' = IF change_piece THEN write_snapshot(snapshots, turn)
                                  ELSE snapshots
  /\ tetris_unchanged

\* an event handler of og_tetris.py: attempt `candidate`; on a False
\* valid_space the piece becomes `undone`, and fall_time `ft` on success
og_attempt(candidate, undone, ft) ==
  LET valid == og_valid_space(candidate, matrix)
  IN  /\ IF valid = "IndexError"
         THEN og_crash(candidate, "IndexError")
         ELSE /\ current_piece' = IF valid = "True" THEN candidate ELSE undone
              /\ UNCHANGED <<run, result>>
      /\ fall_time' = IF valid = "True" THEN ft ELSE fall_time
      /\ -MaxRot <= current_piece'.rotation /\ current_piece'.rotation <= MaxRot

og_key_left ==
  /\ og_followed
  /\ LET c == [current_piece EXCEPT !.x = @ - 1]
     IN  og_attempt(c, [c EXCEPT !.x = @ + 1], fall_time)
  /\ UNCHANGED fall_speed /\ og_event_unchanged /\ tetris_unchanged

og_key_right ==
  /\ og_followed
  /\ LET c == [current_piece EXCEPT !.x = @ + 1]
     IN  og_attempt(c, [c EXCEPT !.x = @ - 1], fall_time)
  /\ UNCHANGED fall_speed /\ og_event_unchanged /\ tetris_unchanged

\* a soft drop that succeeds resets fall_time
og_key_down ==
  /\ og_followed
  /\ LET c == [current_piece EXCEPT !.y = @ + 1]
     IN  og_attempt(c, [c EXCEPT !.y = @ - 1], 0)
  /\ UNCHANGED fall_speed /\ og_event_unchanged /\ tetris_unchanged

og_key_rotate_clockwise ==
  /\ og_followed
  /\ LET c == [current_piece EXCEPT !.rotation = @ + 1]
     IN  og_attempt(c, [c EXCEPT !.rotation = @ - 1], fall_time)
  /\ UNCHANGED fall_speed /\ og_event_unchanged /\ tetris_unchanged

og_key_rotate_counterclockwise ==
  /\ og_followed
  /\ LET c == [current_piece EXCEPT !.rotation = @ - 1]
     IN  og_attempt(c, [c EXCEPT !.rotation = @ + 1], fall_time)
  /\ UNCHANGED fall_speed /\ og_event_unchanged /\ tetris_unchanged

\* rotation += 2; when that is not valid, rotation += len(shape)//2 again
og_key_rotate_180 ==
  /\ og_followed
  /\ LET half == Len(shapes[current_piece.piece_name].rotations) \div 2
         c    == [current_piece EXCEPT !.rotation = @ + 2]
     IN  og_attempt(c, [c EXCEPT !.rotation = @ + half], fall_time)
  /\ UNCHANGED fall_speed /\ og_event_unchanged /\ tetris_unchanged

og_key_hard_drop ==
  /\ og_followed
  /\ fall_speed' = HARD_DROP_FALL_SPEED
  /\ UNCHANGED <<current_piece, fall_time, run, result>>
  /\ og_event_unchanged /\ tetris_unchanged

og_Next ==
  \/ \E dt \in og_Durations, shuffled \in GameShuffles : og_tick(dt, shuffled)
  \/ og_key_left
  \/ og_key_right
  \/ og_key_down
  \/ og_key_rotate_clockwise
  \/ og_key_rotate_counterclockwise
  \/ og_key_rotate_180
  \/ og_key_hard_drop

SpecOG == og_Init /\ [][og_Next]_vars

\* `while run` keeps iterating while the process runs: a frame that can be
\* played is eventually played, whatever keys are pressed in between
SpecOGFair ==
  SpecOG /\ WF_vars(\E dt \in og_Durations, shuffled \in GameShuffles :
                       og_tick(dt, shuffled))


-----------------------------------------------------------------------------
(* The board operations on their own: lock and clear_rows applied to       *)
(* boards drawn from a bounded family.  A board of the family has its      *)
(* BoardRows bottom rows drawn from RowPatterns and every row above empty; *)
(* tetris.py holds it as its locked_positions dict, og_tetris.py as its    *)
(* matrix.  `result` records which implementation runs, the last           *)
(* operation and, as a string, what it returned.                           *)

\* how many bottom rows of a board are drawn
BoardRows == 3

RowPatterns ==
  { [j \in 0..9 |-> "."],
    [j \in 0..9 |-> "y"],
    [j \in 0..9 |-> IF j \in 6..9 THEN "." ELSE "g"],
    [j \in 0..9 |-> IF j \in 6..8 THEN "r" ELSE "."] }

BoardFamily == [1..BoardRows -> RowPatterns]

\* the locked_positions of tetris.py for a board of the family
FamilyDict(fam) ==
  LET cells == {xy \in (0..(GRID_WIDTH - 1)) \X
                       ((GRID_HEIGHT - BoardRows)..(GRID_HEIGHT - 1)) :
                  fam[xy[2] - (GRID_HEIGHT - BoardRows) + 1][xy[1]] # "."}
  IN  [xy \in cells |-> fam[xy[2] - (GRID_HEIGHT - BoardRows) + 1][xy[1]]]

\* the matrix of og_tetris.py for a board of the family
FamilyMatrix(fam) ==
  [r \in 1..MATRIX_HEIGHT |->
     [c \in 1..MATRIX_WIDTH |->
        IF r > MATRIX_HEIGHT - BoardRows
        THEN fam[r - (MATRIX_HEIGHT - BoardRows)][c - 1]
        ELSE PLAY_COLOUR]]

\* how many rows the tower board holds
TowerRows == 11

\* a matrix with a tower: its TowerRows bottom rows hold locked cells in
\* columns 6, 7 and 8, below and beside the spawn placement
TowerMatrix ==
  [r \in 1..MATRIX_HEIGHT |->
     [c \in 1..MATRIX_WIDTH |->
        IF r > MATRIX_HEIGHT - TowerRows /\ (c - 1) \in 6..8 THEN "r"
                                                              ELSE PLAY_COLOUR]]

\* a locked_positions with a tall stack: every row below row SPAWN_Y holds
\* cells in columns 1..9 (column 0 is an empty well) and row SPAWN_Y holds
\* cells in columns 0..8, so that a cell at (9, SPAWN_Y) completes it
TallDict ==
  LET cells == {xy \in (0..(GRID_WIDTH - 1)) \X (SPAWN_Y..(GRID_HEIGHT - 1)) :
                  IF xy[2] = SPAWN_Y THEN xy[1] < GRID_WIDTH - 1 ELSE xy[1] > 0}
  IN  [xy \in cells |-> "r"]

\* a locked_positions without a full row in which one piece completes two
\* rows that are not neighbours: rows 17 and 19 hold cells in columns 0..8,
\* row 18 in columns 0..4 and row 16 in columns 5..8, so that an upright I
\* in column 9 completes rows 17 and 19 and neither row 16 nor row 18
SplitDict ==
  LET cells == {xy \in (0..(GRID_WIDTH - 1)) \X
                       ((GRID_HEIGHT - 4)..(GRID_HEIGHT - 1)) :
                  IF xy[2] \in {GRID_HEIGHT - 3, GRID_HEIGHT - 1}
                  THEN xy[1] < GRID_WIDTH - 1
                  ELSE IF xy[2] = GRID_HEIGHT - 2 THEN xy[1] < 5
                  ELSE xy[1] \in 5..(GRID_WIDTH - 2)}
  IN  [xy \in cells |-> "g"]

fn_Init ==
  \E fam \in BoardFamily, impl \in {"tetris.py", "og_tetris.py"},
     board \in {"drawn", "tower", "split"} :
     /\ result = [impl |-> impl, op |-> "input", returned |-> ""]
     /\ locked_positions = IF impl = "tetris.py"
                           THEN (IF board = "tower" THEN TallDict
                                 ELSE IF board = "split" THEN SplitDict
                                 ELSE FamilyDict(fam))
                           ELSE EmptyDict
     /\ matrix = IF impl = "og_tetris.py"
                 THEN (IF board = "tower" THEN TowerMatrix ELSE FamilyMatrix(fam))
                 ELSE <<>>
     /\ current_piece = Piece(0, 0, "O")
     /\ next_piece = Piece(0, 0, "O")
     /\ bag_of_keys = Unused.bag
     /\ current_bag = Unused.bag
     /\ next_bag = Unused.bag
     /\ fall_time = 0
     /\ fall_speed = 0
     /\ lock_delay = 0
     /\ rawtime = 0
     /\ change_piece = FALSE
     /\ score = 0
     /\ turn = 1
     /\ run = TRUE
     /\ drawn = Unused.drawn
     /\ snapshots = <<>>
     /\ waits = Unused.waits
     /\ replay = Unused.replay

fn_unchanged ==
  UNCHANGED <<next_piece, bag_of_keys, current_bag, next_bag, fall_time,
              fall_speed, lock_delay, rawtime, change_piece, score, turn, run,
              drawn, snapshots, waits, replay>>

og_has_full_row(mat) ==
  \E r \in DOMAIN mat : \A c \in DOMAIN mat[r] : mat[r][c] # PLAY_COLOUR

\* og_tetris.py lines 382-385 on a board without full rows, for a piece
\* that valid_space accepts where it is and not one row lower
og_fn_lock(piece) ==
  /\ result.impl = "og_tetris.py" /\ result.op = "input"
  /\ ~og_has_full_row(matrix)
  /\ og_valid_space(piece, matrix) = "True"
  /\ og_valid_space([piece EXCEPT !.y = @ + 1], matrix) = "False"
  /\ ~og_lock_raises(matrix, piece)
  /\ matrix' = og_lock(matrix, piece)
  /\ current_piece' = piece
  /\ result' = [result EXCEPT !.op = "lock"]
  /\ UNCHANGED locked_positions /\ fn_unchanged

\* og_tetris.py clear_rows(matrix), on a drawn board or after a lock
og_fn_clear_rows ==
  /\ result.impl = "og_tetris.py" /\ result.op \in {"input", "lock"}
  /\ LET cleared == og_clear_rows(matrix)
     IN  /\ matrix' = cleared.matrix
         /\ result' = [result EXCEPT !.op = "clear_rows",
                                     !.returned = cleared.score]
  /\ UNCHANGED <<locked_positions, current_piece>> /\ fn_unchanged

\* og_tetris.py lines 393-394 after the lock: `matrix, delta_score =
\* clear_rows(matrix)` then `score += delta_score`, which raises TypeError
\* when delta_score is None
og_fn_add_score ==
  /\ result.impl = "og_tetris.py" /\ result.op = "lock"
  /\ LET cleared == og_clear_rows(matrix)
     IN  /\ matrix' = cleared.matrix
         /\ IF cleared.score = "None"
            THEN /\ score' = score
                 /\ result' = [result EXCEPT !.op = "add_score",
                                             !.returned = "TypeError"]
            ELSE /\ score' = score + cleared.score
                 /\ result' = [result EXCEPT !.op = "add_score",
                                             !.returned = ToString(cleared.score)]
  /\ UNCHANGED <<locked_positions, current_piece, next_piece, bag_of_keys,
                 current_bag, next_bag, fall_time, fall_speed, lock_delay,
                 rawtime, change_piece, turn, run, drawn, snapshots, waits,
                 replay>>

\* tetris.py clear_rows(grid, locked) with the grid of the dict
fn_clear_rows ==
  /\ result.impl = "tetris.py" /\ result.op = "input"
  /\ LET cleared == clear_rows(create_grid(locked_positions), locked_positions)
     IN  /\ locked_positions' = cleared.locked
         /\ result' = [result EXCEPT !.op = "clear_rows",
                                     !.returned = ToString(cleared.inc)]
  /\ UNCHANGED <<matrix, current_piece>> /\ fn_unchanged

\* a row of the grid built from `locked` has no cell of GRID_COLOUR
has_full_row(locked) ==
  \E i \in 0..(GRID_HEIGHT - 1) :
     \A j \in 0..(GRID_WIDTH - 1) : <<j, i>> \in DOMAIN locked

\* tetris.py lines 346-380 of the frame that locks `piece`, a piece that
\* valid_space accepts where it is and not one row lower: the piece is
\* painted on the grid, the snapshot written, the piece baked into
\* locked_positions, clear_rows called and its count scored, and after
\* that check_lost decides whether the loop goes on.  current_piece keeps
\* the piece that was locked.
lock_block(piece) ==
  /\ valid_space(piece, create_grid(locked_positions))
  /\ ~valid_space([piece EXCEPT !.y = @ + 1], create_grid(locked_positions))
  /\ LET grid    == draw_piece(create_grid(locked_positions), piece)
         cleared == clear_rows(grid, lock(locked_positions, piece))
     IN  /\ locked_positions' = cleared.locked
         /\ score' = score + cleared.inc * 10
         /\ run' = ~check_lost(cleared.locked)
  /\ snapshots' = write_snapshot(snapshots, turn)
  /\ turn' = turn + 1
  /\ current_piece' = piece
  /\ result' = [result EXCEPT !.op = "lock_block"]
  /\ UNCHANGED <<matrix, next_piece, bag_of_keys, current_bag, next_bag,
                 fall_time, fall_speed, lock_delay, rawtime, change_piece,
                 drawn, waits, replay>>

\* the lock block on a drawn board, one without a full row
fn_lock_block(piece) ==
  /\ result.impl = "tetris.py" /\ result.op = "input"
  /\ ~has_full_row(locked_positions)
  /\ lock_block(piece)

\* the lock block of the next piece; it is followed where the lock step
\* before it has left a full row on the board and the game goes on
fn_next_lock_block(piece) ==
  /\ result.impl = "tetris.py" /\ result.op = "lock_block"
  /\ run = TRUE /\ turn <= MaxLocks
  /\ has_full_row(locked_positions)
  /\ lock_block(piece)

\* the pieces tetris.py's lock is tried on: three anchor columns, every kind
\* and rotation, anchor rows around the top of the tall stack and around
\* the drawn rows at the bottom
TetrisLockInputs ==
  {[x |-> x, y |-> y, piece_name |-> k, rotation |-> r] :
     x \in {2, GRID_WIDTH - 2, GRID_WIDTH - 1},
     y \in (SPAWN_Y..(SPAWN_Y + 2)) \cup
           ((GRID_HEIGHT - BoardRows)..(GRID_HEIGHT + 1)),
     k \in Kinds, r \in 0..3}

\* the pieces the lock is tried on: two anchor columns, every kind and
\* rotation, every anchor row from above the tower down
LockInputs ==
  {[x |-> x, y |-> y, piece_name |-> k, rotation |-> r] :
     x \in {3, 6}, y \in (MATRIX_HEIGHT - TowerRows - 4)..(MATRIX_HEIGHT - 1),
     k \in Kinds, r \in 0..3}

fn_Next ==
  \/ \E piece \in LockInputs : og_fn_lock(piece)
  \/ og_fn_clear_rows
  \/ og_fn_add_score
  \/ fn_clear_rows
  \/ \E piece \in TetrisLockInputs : fn_lock_block(piece)
  \/ \E piece \in TetrisLockInputs : fn_next_lock_block(piece)

SpecFn == fn_Init /\ [][fn_Next]_vars

-----------------------------------------------------------------------------
(* The piece generators on their own: successive draws from the generator  *)
(* of tetris.py and from the Bag of og_tetris.py.  `turn` is their turn_no *)
(* (one more than the draws made) and `drawn` holds the latest draws, at   *)
(* most as many as there are kinds, the newest last.                       *)

\* how many of the orders of ShuffleList random.shuffle picks from
NumBagShuffles == 4

\* how many draws are followed
MaxDraws == 15

BagShuffles == {ShuffleList[n] : n \in 1..NumBagShuffles}

Latest(draws) ==
  IF Len(draws) > Len(all_keys)
  THEN SubSeq(draws, Len(draws) - Len(all_keys) + 1, Len(draws))
  ELSE draws

\* shuffler = bag_shuffler() before its first next(); Bag() after __init__
bag_Init ==
  \E impl \in {"tetris.py", "og_tetris.py"}, cur \in BagShuffles,
     nxt \in BagShuffles :
     /\ result = [impl |-> impl, op |-> "created", returned |-> ""]
     /\ bag_of_keys = <<>>
     /\ current_bag = IF impl = "og_tetris.py" THEN cur ELSE Unused.bag
     /\ next_bag = IF impl = "og_tetris.py" THEN nxt ELSE Unused.bag
     /\ drawn = <<>>
     /\ turn = 1
     /\ locked_positions = EmptyDict
     /\ matrix = Unused.matrix
     /\ current_piece = Piece(0, 0, "O")
     /\ next_piece = Piece(0, 0, "O")
     /\ fall_time = 0
     /\ fall_speed = 0
     /\ lock_delay = 0
     /\ rawtime = 0
     /\ change_piece = FALSE
     /\ score = 0
     /\ run = TRUE
     /\ snapshots = <<>>
     /\ waits = [key \in Kinds |-> -1]
     /\ replay = Unused.replay

bag_unchanged ==
  UNCHANGED <<locked_positions, matrix, current_piece, next_piece, fall_time,
              fall_speed, lock_delay, rawtime, change_piece, score, run,
              snapshots, replay>>

\* the waits after `key` is drawn: 0 for it, one more for every kind that
\* has been drawn before
Waited(w, key) ==
  [k \in DOMAIN w |-> IF k = key THEN 0 ELSE IF w[k] < 0 THEN w[k] ELSE w[k] + 1]

\* next(shuffler) of tetris.py
bag_next(shuffled) ==
  /\ result.impl = "tetris.py" /\ turn <= MaxDraws
  /\ LET draw == bag_shuffler(bag_of_keys, shuffled)
     IN  /\ bag_of_keys' = draw.bag
         /\ drawn' = Latest(Append(drawn, draw.key))
         /\ waits' = Waited(waits, draw.key)
         /\ result' = [result EXCEPT !.op = "next", !.returned = draw.key]
  /\ turn' = turn + 1
  /\ UNCHANGED <<current_bag, next_bag>> /\ bag_unchanged

\* next(bag) of og_tetris.py
og_bag_next(shuffled) ==
  /\ result.impl = "og_tetris.py" /\ turn <= MaxDraws
  /\ LET draw == Bag_next(current_bag, next_bag, shuffled)
     IN  /\ current_bag' = draw.current_bag
         /\ next_bag' = draw.next_bag
         /\ drawn' = Latest(Append(drawn, draw.key))
         /\ waits' = Waited(waits, draw.key)
         /\ result' = [result EXCEPT !.op = "next", !.returned = draw.key]
  /\ turn' = turn + 1
  /\ UNCHANGED bag_of_keys /\ bag_unchanged

bag_Next ==
  \/ \E shuffled \in BagShuffles : bag_next(shuffled)
  \/ \E shuffled \in BagShuffles : og_bag_next(shuffled)

SpecBag == bag_Init /\ [][bag_Next]_vars

-----------------------------------------------------------------------------
(* Two runs started the same way: each creates its generator with the same *)
(* seed and draws in step with the other.  The first run's generator is in *)
(* bag_of_keys or current_bag, next_bag, and its draws in `drawn`; the      *)
(* second run's are in the record `replay`.  Neither bag_shuffler nor       *)
(* Bag.__init__ passes a seed to `random`: each run's shuffles are its own. *)

\* Bag.__init__(self, seed=42)
DEFAULT_SEED == 42

\* how many draws of the two runs are followed
ReplayDraws == 8

replay_Init ==
  \E impl \in {"tetris.py", "og_tetris.py"},
     cur \in BagShuffles, nxt \in BagShuffles,
     cur2 \in BagShuffles, nxt2 \in BagShuffles :
     /\ result = [impl |-> impl, op |-> "created", returned |-> "",
                  seed |-> DEFAULT_SEED]
     /\ bag_of_keys = <<>>
     /\ current_bag = IF impl = "og_tetris.py" THEN cur ELSE Unused.bag
     /\ next_bag = IF impl = "og_tetris.py" THEN nxt ELSE Unused.bag
     /\ replay = [bag_of_keys |-> <<>>,
                  current_bag |-> IF impl = "og_tetris.py" THEN cur2 ELSE Unused.bag,
                  next_bag    |-> IF impl = "og_tetris.py" THEN nxt2 ELSE Unused.bag,
                  drawn       |-> <<>>]
     /\ drawn = <<>>
     /\ turn = 1
     /\ waits = Unused.waits
     /\ snapshots = <<>>
     /\ locked_positions = EmptyDict
     /\ matrix = Unused.matrix
     /\ current_piece = Piece(0, 0, "O")
     /\ next_piece = Piece(0, 0, "O")
     /\ fall_time = 0
     /\ fall_speed = 0
     /\ lock_delay = 0
     /\ rawtime = 0
     /\ change_piece = FALSE
     /\ score = 0
     /\ run = TRUE

replay_unchanged ==
  UNCHANGED <<locked_positions, matrix, current_piece, next_piece, fall_time,
              fall_speed, lock_delay, rawtime, change_piece, score, run,
              snapshots, waits>>

\* next(shuffler) in both runs of tetris.py
replay_next(shuffled, shuffled2) ==
  /\ result.impl = "tetris.py" /\ turn <= ReplayDraws
  /\ LET draw  == bag_shuffler(bag_of_keys, shuffled)
         draw2 == bag_shuffler(replay.bag_of_keys, shuffled2)
     IN  /\ bag_of_keys' = draw.bag
         /\ drawn' = Latest(Append(drawn, draw.key))
         /\ replay' = [replay EXCEPT !.bag_of_keys = draw2.bag,
                                     !.drawn = Latest(Append(@, draw2.key))]
         /\ result' = [result EXCEPT !.op = "next", !.returned = draw.key]
  /\ turn' = turn + 1
  /\ UNCHANGED <<current_bag, next_bag>> /\ replay_unchanged

\* next(bag) in both runs of og_tetris.py
og_replay_next(shuffled, shuffled2) ==
  /\ result.impl = "og_tetris.py" /\ turn <= ReplayDraws
  /\ LET draw  == Bag_next(current_bag, next_bag, shuffled)
         draw2 == Bag_next(replay.current_bag, replay.next_bag, shuffled2)
     IN  /\ current_bag' = draw.current_bag
         /\ next_bag' = draw.next_bag
         /\ drawn' = Latest(Append(drawn, draw.key))
         /\ replay' = [replay EXCEPT !.current_bag = draw2.current_bag,
                                     !.next_bag = draw2.next_bag,
                                     !.drawn = Latest(Append(@, draw2.key))]
         /\ result' = [result EXCEPT !.op = "next", !.returned = draw.key]
  /\ turn' = turn + 1
  /\ UNCHANGED bag_of_keys /\ replay_unchanged

replay_Next ==
  \/ \E shuffled \in BagShuffles, shuffled2 \in BagShuffles :
        replay_next(shuffled, shuffled2)
  \/ \E shuffled \in BagShuffles, shuffled2 \in BagShuffles :
        og_replay_next(shuffled, shuffled2)

SpecReplay == replay_Init /\ [][replay_Next]_vars

-----------------------------------------------------------------------------
(* Two games of one process: main_menu calls main, the game ends (main     *)
(* returns None after YOU LOST), and the next key press calls main again.  *)
(* The first game's generator is in bag_of_keys or current_bag, next_bag   *)
(* and its draws in `drawn`; `run` tells that it is still on.  The second  *)
(* game's generator and draws are in the record `replay`.  tetris.py draws *)
(* from the module-level `shuffler` in every game; og_tetris.py creates a  *)
(* Bag in main.                                                            *)

\* how many pieces the first game draws at most
FirstGameDraws == 9

games_Init ==
  \E impl \in {"tetris.py", "og_tetris.py"}, cur \in BagShuffles,
     nxt \in BagShuffles :
     /\ result = [impl |-> impl, op |-> "created", returned |-> ""]
     /\ bag_of_keys = <<>>
     /\ current_bag = IF impl = "og_tetris.py" THEN cur ELSE Unused.bag
     /\ next_bag = IF impl = "og_tetris.py" THEN nxt ELSE Unused.bag
     /\ replay = [bag_of_keys |-> <<>>, current_bag |-> Unused.bag,
                  next_bag |-> Unused.bag, drawn |-> <<>>]
     /\ drawn = <<>>
     /\ turn = 1
     /\ run = TRUE
     /\ waits = Unused.waits
     /\ snapshots = <<>>
     /\ locked_positions = EmptyDict
     /\ matrix = Unused.matrix
     /\ current_piece = Piece(0, 0, "O")
     /\ next_piece = Piece(0, 0, "O")
     /\ fall_time = 0
     /\ fall_speed = 0
     /\ lock_delay = 0
     /\ rawtime = 0
     /\ change_piece = FALSE
     /\ score = 0

games_unchanged ==
  UNCHANGED <<locked_positions, matrix, current_piece, next_piece, fall_time,
              fall_speed, lock_delay, rawtime, change_piece, score,
              snapshots, waits>>

\* get_shape() in the first game of tetris.py
first_game_next(shuffled) ==
  /\ result.impl = "tetris.py" /\ run = TRUE /\ turn <= FirstGameDraws
  /\ LET draw == bag_shuffler(bag_of_keys, shuffled)
     IN  /\ bag_of_keys' = draw.bag
         /\ drawn' = Latest(Append(drawn, draw.key))
         /\ result' = [result EXCEPT !.op = "next", !.returned = draw.key]
  /\ turn' = turn + 1
  /\ UNCHANGED <<current_bag, next_bag, replay, run>> /\ games_unchanged

\* get_next_piece(bag) in the first game of og_tetris.py
og_first_game_next(shuffled) ==
  /\ result.impl = "og_tetris.py" /\ run = TRUE /\ turn <= FirstGameDraws
  /\ LET draw == Bag_next(current_bag, next_bag, shuffled)
     IN  /\ current_bag' = draw.current_bag
         /\ next_bag' = draw.next_bag
         /\ drawn' = Latest(Append(drawn, draw.key))
         /\ result' = [result EXCEPT !.op = "next", !.returned = draw.key]
  /\ turn' = turn + 1
  /\ UNCHANGED <<bag_of_keys, replay, run>> /\ games_unchanged

\* the first game has drawn its two pieces or more and ends; main_menu
\* calls main again: tetris.py goes on with the module-level shuffler
main_again ==
  /\ result.impl = "tetris.py" /\ run = TRUE /\ turn > 2
  /\ run' = FALSE
  /\ replay' = [replay EXCEPT !.bag_of_keys = bag_of_keys]
  /\ result' = [result EXCEPT !.op = "main", !.returned = ""]
  /\ UNCHANGED <<bag_of_keys, current_bag, next_bag, drawn, turn>>
  /\ games_unchanged

\* the same in og_tetris.py: main runs `bag = Bag()`
og_main_again(cur, nxt) ==
  /\ result.impl = "og_tetris.py" /\ run = TRUE /\ turn > 2
  /\ run' = FALSE
  /\ replay' = [replay EXCEPT !.current_bag = cur, !.next_bag = nxt]
  /\ result' = [result EXCEPT !.op = "main", !.returned = ""]
  /\ UNCHANGED <<bag_of_keys, current_bag, next_bag, drawn, turn>>
  /\ games_unchanged

\* get_shape() in the second game of tetris.py
second_game_next(shuffled) ==
  /\ result.impl = "tetris.py" /\ run = FALSE
  /\ Len(replay.drawn) < Len(all_keys)
  /\ LET draw == bag_shuffler(replay.bag_of_keys, shuffled)
     IN  /\ replay' = [replay EXCEPT !.bag_of_keys = draw.bag,
                                     !.drawn = Append(@, draw.key)]
         /\ result' = [result EXCEPT !.op = "next", !.returned = draw.key]
  /\ UNCHANGED <<bag_of_keys, current_bag, next_bag, drawn, turn, run>>
  /\ games_unchanged

\* get_next_piece(bag) in the second game of og_tetris.py
og_second_game_next(shuffled) ==
  /\ result.impl = "og_tetris.py" /\ run = FALSE
  /\ Len(replay.drawn) < Len(all_keys)
  /\ LET draw == Bag_next(replay.current_bag, replay.next_bag, shuffled)
     IN  /\ replay' = [replay EXCEPT !.current_bag = draw.current_bag,
                                     !.next_bag = draw.next_bag,
                                     !.drawn = Append(@, draw.key)]
         /\ result' = [result EXCEPT !.op = "next", !.returned = draw.key]
  /\ UNCHANGED <<bag_of_keys, current_bag, next_bag, drawn, turn, run>>
  /\ games_unchanged

games_Next ==
  \/ \E shuffled \in BagShuffles : first_game_next(shuffled)
  \/ \E shuffled \in BagShuffles : og_first_game_next(shuffled)
  \/ main_again
  \/ \E cur \in BagShuffles, nxt \in BagShuffles : og_main_again(cur, nxt)
  \/ \E shuffled \in BagShuffles : second_game_next(shuffled)
  \/ \E shuffled \in BagShuffles : og_second_game_next(shuffled)

SpecGames == games_Init /\ [][games_Next]_vars

-----------------------------------------------------------------------------
(* The game loop of og_tetris.py with no key ever pressed: pygame's event  *)
(* queue stays empty and frames of positive duration keep being played.    *)

og_quiet_Next ==
  \E dt \in og_Durations, shuffled \in GameShuffles : og_tick(dt, shuffled)

SpecOGQuiet == og_Init /\ [][og_quiet_Next]_vars /\ WF_vars(og_quiet_Next)

-----------------------------------------------------------------------------
(* The rotate handlers on their own: a piece in the open, on an empty      *)
(* board, where valid_space accepts every rotation, is rotated again and   *)
(* again.  next_piece holds the piece as it was when the presses recorded  *)
(* in `drawn` began; `result` records which implementation runs.           *)

\* the rotation counter is followed within -RotRange .. RotRange
RotRange == 5

\* how many presses in a row are recorded
MaxPresses == 4

rot_Init ==
  \E impl \in {"tetris.py", "og_tetris.py"}, key \in Kinds :
     /\ result = [impl |-> impl, op |-> "created", returned |-> ""]
     /\ current_piece = IF impl = "tetris.py" THEN get_shape(key)
                                              ELSE get_next_piece(key)
     /\ next_piece = IF impl = "tetris.py" THEN get_shape(key)
                                           ELSE get_next_piece(key)
     /\ locked_positions = EmptyDict
     /\ matrix = IF impl = "og_tetris.py" THEN create_matrix ELSE Unused.matrix
     /\ drawn = <<>>
     /\ bag_of_keys = Unused.bag
     /\ current_bag = Unused.bag
     /\ next_bag = Unused.bag
     /\ fall_time = 0
     /\ fall_speed = 0
     /\ lock_delay = 0
     /\ rawtime = 0
     /\ change_piece = FALSE
     /\ score = 0
     /\ turn = 1
     /\ run = TRUE
     /\ snapshots = <<>>
     /\ waits = Unused.waits
     /\ replay = Unused.replay

rot_unchanged ==
  UNCHANGED <<locked_positions, matrix, bag_of_keys, current_bag, next_bag,
              fall_time, fall_speed, lock_delay, rawtime, change_piece, score,
              turn, run, snapshots, waits, replay>>

\* a rotate handler has run: `rotated` is the piece it leaves
rot_pressed(rotated, intent) ==
  /\ Len(drawn) < MaxPresses
  /\ -RotRange <= rotated.rotation /\ rotated.rotation <= RotRange
  /\ current_piece' = rotated
  /\ drawn' = Append(drawn, intent)
  /\ result' = [result EXCEPT !.op = intent]
  /\ UNCHANGED next_piece /\ rot_unchanged

\* the piece after a rotate handler of og_tetris.py (lines 360-371)
og_rotated(candidate, undone) ==
  IF og_valid_space(candidate, matrix) = "True" THEN candidate ELSE undone

rot_clockwise ==
  LET c == [current_piece EXCEPT !.rotation = @ + 1]
      u == [c EXCEPT !.rotation = @ - 1]
  IN  rot_pressed(IF result.impl = "tetris.py" THEN attempt(c, u)
                                               ELSE og_rotated(c, u),
                  "Rotate Clockwise")

rot_counterclockwise ==
  LET c == [current_piece EXCEPT !.rotation = @ - 1]
      u == [c EXCEPT !.rotation = @ + 1]
  IN  rot_pressed(IF result.impl = "tetris.py" THEN attempt(c, u)
                                               ELSE og_rotated(c, u),
                  "Rotate Counterclockwise")

\* tetris.py: rotation -= 2, undone by += 2; og_tetris.py: rotation += 2,
\* and += 2 again when that is not valid
rot_180 ==
  LET half == Len(shapes[current_piece.piece_name].rotations) \div 2
      down == [current_piece EXCEPT !.rotation = @ - half]
      up   == [current_piece EXCEPT !.rotation = @ + 2]
  IN  rot_pressed(IF result.impl = "tetris.py"
                  THEN attempt(down, [down EXCEPT !.rotation = @ + half])
                  ELSE og_rotated(up, [up EXCEPT !.rotation = @ + half]),
                  "Rotate 180")

\* the presses are counted afresh from the piece as it is now
rot_again ==
  /\ drawn # <<>>
  /\ next_piece' = current_piece
  /\ drawn' = <<>>
  /\ result' = [result EXCEPT !.op = "created"]
  /\ UNCHANGED current_piece /\ rot_unchanged

rot_Next ==
  \/ rot_clockwise
  \/ rot_counterclockwise
  \/ rot_180
  \/ rot_again

SpecRot == rot_Init /\ [][rot_Next]_vars

-----------------------------------------------------------------------------
(* The rows of og_tetris.py's matrix as list objects.  `matrix` is a list  *)
(* of row lists, and two entries of it may be one and the same list: a     *)
(* write through one entry then shows through the other.  `drawn` holds,   *)
(* for every row of matrix, a number that names the list object behind it  *)
(* (equal numbers, one object); `turn` counts the calls made.              *)

\* how many calls of clear_rows and runs of the lock loop are followed
RowOps == 3

\* create_matrix() builds every row with its own list comprehension
rows_Init ==
  \E fam \in BoardFamily :
     /\ matrix = FamilyMatrix(fam)
     /\ drawn = [r \in 1..MATRIX_HEIGHT |-> r]
     /\ result = [impl |-> "og_tetris.py", op |-> "input", returned |-> ""]
     /\ current_piece = get_next_piece("O")
     /\ next_piece = get_next_piece("O")
     /\ locked_positions = EmptyDict
     /\ bag_of_keys = Unused.bag
     /\ current_bag = Unused.bag
     /\ next_bag = Unused.bag
     /\ fall_time = 0
     /\ fall_speed = 0
     /\ lock_delay = 0
     /\ rawtime = 0
     /\ change_piece = FALSE
     /\ score = 0
     /\ turn = 1
     /\ run = TRUE
     /\ snapshots = <<>>
     /\ waits = Unused.waits
     /\ replay = Unused.replay

rows_unchanged ==
  UNCHANGED <<locked_positions, next_piece, bag_of_keys, current_bag, next_bag,
              fall_time, fall_speed, lock_delay, rawtime, change_piece, score,
              run, snapshots, waits, replay>>

\* the list objects of new_matrix: `[[PLAY_COLOUR]*MATRIX_WIDTH]*k` is a
\* list of k references to one new row list (line 146); the rows appended to
\* it are the row objects of the old matrix (lines 147-149)
clear_rows_objects(mat, objects, new) ==
  LET rows_to_clear ==
        {i \in 0..(Len(mat) - 1) :
           \A j \in DOMAIN mat[i + 1] : mat[i + 1][j] # PLAY_COLOUR}
      kept == SelectSeq([n \in 1..Len(mat) |-> n - 1],
                        LAMBDA i : i \notin rows_to_clear)
  IN  [n \in 1..Cardinality(rows_to_clear) |-> new]
        \o [n \in 1..Len(kept) |-> objects[kept[n] + 1]]

\* lines 382-385 on row objects: the cells of the image are written one
\* after the other, row by row, and a write through matrix[y + i] lands in
\* the list object behind that row, which every row sharing the object
\* shows; the last write to a cell of an object is the one that stays
lock_objects(mat, objects, piece) ==
  LET img == image(piece)
      writes(r, c) ==
        {ij \in ImageCells(img) :
           /\ PyInRange(piece.y + ij[1], Len(mat))
           /\ objects[PyIndex(piece.y + ij[1], Len(mat))] = objects[r]
           /\ PyInRange(piece.x + ij[2], Len(mat[r]))
           /\ PyIndex(piece.x + ij[2], Len(mat[r])) = c}
      last(W) == CHOOSE w \in W : \A v \in W : v[1] <= w[1]
  IN  [r \in DOMAIN mat |->
         [c \in DOMAIN mat[r] |->
            IF writes(r, c) = {} THEN mat[r][c]
            ELSE img[last(writes(r, c))[1] + 1][last(writes(r, c))[2] + 1]]]

\* clear_rows(matrix) and the assignment of its result to matrix (line 393)
rows_clear ==
  /\ turn <= RowOps
  /\ result.op \in {"input", "lock"}
  /\ matrix' = og_clear_rows(matrix).matrix
  /\ drawn' = clear_rows_objects(matrix, drawn, MATRIX_HEIGHT + turn)
  /\ turn' = turn + 1
  /\ result' = [result EXCEPT !.op = "clear_rows"]
  /\ UNCHANGED current_piece /\ rows_unchanged

\* the lock loop of a later frame, for a piece that valid_space accepts
\* where it is
rows_lock(piece) ==
  /\ turn <= RowOps
  /\ result.op = "clear_rows"
  /\ og_valid_space(piece, matrix) = "True"
  /\ ~og_lock_raises(matrix, piece)
  /\ matrix' = lock_objects(matrix, drawn, piece)
  /\ current_piece' = piece
  /\ turn' = turn + 1
  /\ result' = [result EXCEPT !.op = "lock"]
  /\ UNCHANGED drawn /\ rows_unchanged

\* the pieces the lock loop is run for: one anchor column, the anchor rows
\* at the top of the matrix and the one whose bounding box ends on the last
\* row, every kind, two rotation states
RowLockInputs ==
  {[x |-> PIECE_SPAWNING_X, y |-> y, piece_name |-> k, rotation |-> r] :
     y \in {0, 1, MATRIX_HEIGHT - 4}, k \in Kinds, r \in {0, 1}}

rows_Next ==
  \/ rows_clear
  \/ \E piece \in RowLockInputs : rows_lock(piece)

SpecRows == rows_Init /\ [][rows_Next]_vars

-----------------------------------------------------------------------------
(* The claims. *)

\* the cells the active piece of og_tetris.py fills: (row, column) in the matrix
og_piece_cells(piece) ==
  LET img == image(piece)
  IN  {<<piece.y + ij[1], piece.x + ij[2]>> :
         ij \in {c \in ImageCells(img) : img[c[1] + 1][c[2] + 1] # PLAY_COLOUR}}

\* C1 (tetris.py side, for reference): while the game runs no filled cell of
\* the active piece is on a locked cell or at or below row 20.
tetris_ActivePieceInFreeCells ==
  run = TRUE =>
    \A pos \in convert_shape_format(current_piece) :
       pos \notin DOMAIN locked_positions /\ pos[2] < GRID_HEIGHT

C2_ColumnsInRange ==
  \A pos \in convert_shape_format(current_piece) :
     0 <= pos[1] /\ pos[1] <= GRID_WIDTH - 1

SamePlacement(p, q) ==
  p.x = q.x /\ p.y = q.y /\ p.rotation % 4 = q.rotation % 4

Candidates(piece) ==
  { piece,
    [piece EXCEPT !.x = @ - 1], [piece EXCEPT !.x = @ + 1],
    [piece EXCEPT !.y = @ + 1],
    [piece EXCEPT !.rotation = @ + 1], [piece EXCEPT !.rotation = @ - 1],
    [piece EXCEPT !.rotation = @ - 2] }

\* C4: valid_space(piece, board) is true exactly when every filled cell of
\* the piece has its column in [0, 9], its row above the bottom bound and is
\* not a locked cell, a row above the top never blocking on occupancy.
C4_ValidSpaceIffFree ==
  \A cand \in Candidates(current_piece) :
     valid_space(cand, create_grid(locked_positions))
       <=> \A pos \in convert_shape_format(cand) :
              /\ 0 <= pos[1] /\ pos[1] <= GRID_WIDTH - 1
              /\ pos[2] < GRID_HEIGHT
              /\ pos[2] >= 0 => pos \notin DOMAIN locked_positions

full_rows(grid) ==
  {i \in DOMAIN grid : \A j \in DOMAIN grid[i] : grid[i][j] # GRID_COLOUR}

\* C6: a clear moves every non-full row down by the number of full rows
\* below it, contents kept, and leaves that many empty rows at the top,
\* also when a non-full row lies between two full rows.
C6_ClearShiftsRows ==
  [][(result.impl = "tetris.py" /\ result'.op = "clear_rows")
       => LET before == create_grid(locked_positions)
              after  == create_grid(locked_positions')
              full   == full_rows(before)
          IN  /\ \A i \in DOMAIN before \ full :
                    after[i + Cardinality({f \in full : f > i})] = before[i]
              /\ \A i \in 1..Cardinality(full) :
                    \A j \in DOMAIN after[i] : after[i][j] = GRID_COLOUR]_vars

og_full_rows(mat) ==
  {r \in DOMAIN mat : \A c \in DOMAIN mat[r] : mat[r][c] # PLAY_COLOUR}

C8_ClearWithoutFullRow ==
  [][(/\ result'.op = "clear_rows"
      /\ result.impl = "og_tetris.py" => ~og_has_full_row(matrix)
      /\ result.impl = "tetris.py"
           => full_rows(create_grid(locked_positions)) = {})
       => /\ result'.returned = "0"
          /\ matrix' = matrix
          /\ locked_positions' = locked_positions]_vars

Occurrences(draws, key) == Cardinality({n \in DOMAIN draws : draws[n] = key})

\* C9: draws 7k+1 through 7k+7 of a bag, counted from its creation, hold
\* each of the 7 kinds exactly once.
C9_BlocksHoldEveryKindOnce ==
  (turn > 1 /\ (turn - 1) % Len(all_keys) = 0)
    => /\ Len(drawn) = Len(all_keys)
       /\ \A key \in Kinds : Occurrences(drawn, key) = 1

\* C9 witness: the Bag of og_tetris.py has given its second block of 7.
C9_Witness ==
  /\ result.impl = "og_tetris.py"
  /\ turn - 1 = 2 * Len(all_keys)

\* C10: every 7 successive draws, wherever they start, hold each of the 7
\* kinds exactly once.
C10_EveryWindowHoldsEveryKindOnce ==
  Len(drawn) = Len(all_keys)
    => \A key \in Kinds : Occurrences(drawn, key) = 1

\* C10, amended: 7 successive draws that start at a refill hold each kind
\* exactly once; 7 successive draws that start elsewhere hold no kind more
\* than twice.
C10_WindowsHoldNoKindMoreThanTwice ==
  Len(drawn) = Len(all_keys)
    => /\ \A key \in Kinds : Occurrences(drawn, key) <= 2
       /\ (turn - 1) % Len(all_keys) = 0
            => \A key \in Kinds : Occurrences(drawn, key) = 1

\* C10 witness: 7 successive draws across a refill with a kind drawn twice.
C10_Witness ==
  /\ Len(drawn) = Len(all_keys)
  /\ (turn - 1) % Len(all_keys) # 0
  /\ \E key \in Kinds : Occurrences(drawn, key) = 2

\* the most draws of other kinds the bag can put between two draws of one
\* kind: first of one shuffle, last of the following one
MaxWait == 2 * (Len(all_keys) - 1)

\* C11: between two successive draws of the same kind there are at most 12
\* draws of other kinds, whatever the shuffles.
C11_WaitAtMostTwelve ==
  \A key \in Kinds : waits[key] <= MaxWait

\* C11 witness: a kind drawn first in one shuffle has waited 12 draws and is
\* the last key left of the following shuffle.
C11_Witness ==
  \E key \in Kinds :
     /\ waits[key] = MaxWait
     /\ \/ result.impl = "tetris.py" /\ bag_of_keys = <<key>>
        \/ result.impl = "og_tetris.py" /\ current_bag = <<key>>

\* C12: after construction and after every draw the current pool of the Bag
\* is non-empty and holds kinds of the 7, none twice, and the next pool is
\* a permutation of the 7 kinds: a draw never pops from an empty pool.
C12_BagAlwaysReady ==
  result.impl = "og_tetris.py"
    => /\ current_bag # <<>>
       /\ \A n \in DOMAIN current_bag : current_bag[n] \in Kinds
       /\ \A key \in Kinds : Occurrences(current_bag, key) <= 1
       /\ Len(next_bag) = Len(all_keys)
       /\ \A key \in Kinds : Occurrences(next_bag, key) = 1

\* C12 witness: the 7th draw has emptied the first pool and the Bag holds
\* the whole following pool.
C12_Witness ==
  /\ result.impl = "og_tetris.py"
  /\ turn - 1 = Len(all_keys)
  /\ Len(current_bag) = Len(all_keys)

\* a locked cell of mat lies on a filled cell of the piece
og_overlaps(piece, mat) ==
  \E rc \in og_piece_cells(piece) : mat[rc[1] + 1][rc[2] + 1] # PLAY_COLOUR

C14_GameOverIsTerminal ==
  [][run = FALSE
       => UNCHANGED <<locked_positions, score, turn, current_piece, next_piece,
                      bag_of_keys, snapshots>>]_vars

\* C14 witness: check_lost has ended a game of tetris.py.
C14_Witness ==
  /\ run = FALSE
  /\ result = "running"
  /\ check_lost(locked_positions)

\* C17: when the snapshot write of a lock fails the lock still happens: the
\* piece is baked into the board, the turn counter advances, the next piece
\* becomes active, and the loop goes on unless check_lost ends the game.
C17_RecorderFailureDoesNotStopTheGame ==
  [][(run = TRUE /\ change_piece /\ result' = "OSError")
       => /\ DOMAIN locked_positions' # DOMAIN locked_positions
          /\ turn' = turn + 1
          /\ current_piece'.piece_name = next_piece.piece_name
          /\ (run' = TRUE \/ check_lost(locked_positions'))]_vars

C16_SameSeedSameDraws ==
  result.impl = "og_tetris.py" => replay.drawn = drawn

\* C18: every lock writes exactly one snapshot, keyed by the turn counter,
\* and raises the turn counter by 1; nothing else changes either.  So the
\* keys written in one game are 1, 2, 3, ... with none written twice, and
\* the turn counter is the number of pieces locked so far plus 1 (every
\* locked piece left 4 cells, of which each cleared row took GRID_WIDTH and
\* paid 10 points).
C18_OneSnapshotPerLock ==
  /\ [](/\ snapshots = [i \in 1..(turn - 1) |-> i]
        /\ Cardinality(DOMAIN locked_positions) + GRID_WIDTH * (score \div 10)
             = 4 * (turn - 1))
  /\ [][\/ /\ turn' = turn + 1
            /\ snapshots' = Append(snapshots, turn)
            /\ locked_positions' # locked_positions
         \/ /\ turn' = turn
            /\ snapshots' = snapshots
            /\ locked_positions' = locked_positions]_vars

\* two pieces have locked: snapshots 1 and 2 are written, the turn is 3
C18_Witness ==
  /\ turn = 3
  /\ snapshots = <<1, 2>>
  /\ Cardinality(DOMAIN locked_positions) = 8

\* the side of the masks of a kind: 4 for I and O, 3 for the others
MaskSide(key) == IF key \in {"I", "O"} THEN 4 ELSE 3

\* C19: every kind of the catalog has exactly 4 rotation states, and every
\* rotation state is a square grid: 3 rows of 3 cells for S, Z, J, L, T and
\* 4 rows of 4 cells for I and O.  Stated of the mask the piece in play
\* uses, whatever its kind and rotation.
C19_MasksAreFixedSizeGrids ==
  LET key       == current_piece.piece_name
      rotations == shapes[key].rotations
      format    == rotations[(current_piece.rotation % Len(rotations)) + 1]
  IN  /\ Len(rotations) = 4
      /\ Len(format) = MaskSide(key)
      /\ \A i \in DOMAIN format : Len(format[i]) = MaskSide(key)

\* the cells of the og_tetris.py matrix that hold a locked colour
og_locked_cells(mat) ==
  {rc \in (1..Len(mat)) \X (1..MATRIX_WIDTH) : mat[rc[1]][rc[2]] # PLAY_COLOUR}

og_cannot_descend ==
  og_valid_space([current_piece EXCEPT !.y = @ + 1], matrix) = "False"

cannot_descend ==
  ~valid_space([current_piece EXCEPT !.y = @ + 1], create_grid(locked_positions))

\* a frame has just decided to lock the active piece
LockDecided == change_piece' /\ (~change_piece \/ turn' # turn)

\* C22 as stated: a piece is locked only by a failed gravity step at which
\* the lock-delay timer, with the time of the frame added, has exceeded
\* LOCK_DELAY.
C22_LockOnlyAfterDelayExceeded ==
  [][/\ turn' # turn => change_piece
     /\ LockDecided => /\ cannot_descend'
                       /\ lock_delay + rawtime' > LOCK_DELAY]_vars

\* C22, amended: a piece is locked only by a failed gravity step at which
\* the lock-delay timer, with the time of the frame added, has reached
\* LOCK_DELAY (40 ms on the timer are enough); a failed step that leaves
\* the timer below it does not lock.
C22_LockOnlyAfterDelayReached ==
  [][/\ turn' # turn => change_piece
     /\ LockDecided => /\ cannot_descend'
                       /\ lock_delay + rawtime' >= LOCK_DELAY
     /\ (lock_delay' > lock_delay) => /\ ~change_piece'
                                      /\ lock_delay' < LOCK_DELAY]_vars

\* the frame before decided the lock with the timer at exactly LOCK_DELAY
\* (two failed gravity steps of ShortTick each): the piece will lock
C22_Witness ==
  /\ change_piece
  /\ lock_delay = 0
  /\ rawtime = ShortTick
  /\ 2 * ShortTick = LOCK_DELAY
  /\ cannot_descend

\* C23: whenever the active piece moves down one row, by a gravity step or
\* by the Down key, the lock-delay timer is 0 immediately afterwards.
C23_DescentResetsLockDelay ==
  [][(turn' = turn /\ current_piece'.y = current_piece.y + 1)
       => lock_delay' = 0]_vars

\* C24: every cell a lock of the game loop writes was unoccupied just
\* before the lock, and the lock leaves every cell locked earlier as it was
\* (unless the lock completes a row, which clear_rows then takes out).
C24_LockWritesFreeCells ==
  [][turn' # turn
       => /\ convert_shape_format(current_piece) \cap DOMAIN locked_positions = {}
          /\ score' = score
               => \A pos \in DOMAIN locked_positions :
                     /\ pos \in DOMAIN locked_positions'
                     /\ locked_positions'[pos] = locked_positions[pos]]_vars

\* the second piece of a game has locked on top of the first
C24_Witness ==
  /\ turn = 3
  /\ Cardinality(DOMAIN locked_positions) = 8
  /\ \E pos \in DOMAIN locked_positions :
        /\ <<pos[1], pos[2] + 1>> \in DOMAIN locked_positions
        /\ locked_positions[<<pos[1], pos[2] + 1>>] # locked_positions[pos]

\* C25: the game-over condition is evaluated on the board with the piece
\* baked in and before completed rows are cleared: a lock that leaves a cell
\* of the piece above the height threshold ends the game, also when the
\* same lock completes rows.
C25_GameOverBeforeClear ==
  [][(result.impl = "tetris.py" /\ result'.op = "lock_block")
       => (check_lost(lock(locked_positions, current_piece')) => run' = FALSE)]_vars

\* C26: a hard drop changes nothing but the fall interval, which it sets to
\* its minimum; the interval then stays at the minimum while the same piece
\* is active, whatever moves and rotations are applied, and every lock sets
\* it back to its base value.
C26_HardDropOnlySetsFallSpeed ==
  [][/\ (fall_speed' # fall_speed /\ turn' = turn)
          => /\ fall_speed' = HARD_DROP_FALL_SPEED
             /\ UNCHANGED <<current_piece, locked_positions, next_piece,
                            bag_of_keys, fall_time, lock_delay, rawtime,
                            change_piece, score, run, snapshots>>
     /\ (fall_speed = HARD_DROP_FALL_SPEED /\ turn' = turn)
          => fall_speed' = HARD_DROP_FALL_SPEED
     /\ turn' # turn => fall_speed' = BASE_FALL_SPEED]_vars

\* a hard-dropped piece, moved and rotated by the player, rests with its
\* lock decided: the next frame locks it and resets the interval
C26_Witness ==
  /\ fall_speed = HARD_DROP_FALL_SPEED
  /\ change_piece
  /\ run = TRUE
  /\ current_piece.x # SPAWN_X
  /\ current_piece.rotation # 0

\* C27: in every state of a running game there is a next piece, waiting at
\* the spawn anchor with rotation 0, and the game has drawn two pieces more
\* than it has locked (the bag holds what is left of the pools drawn from).
\* At every lock the next piece becomes the active piece (a gravity step of
\* the same frame may already have moved it down one row) and the key
\* popped from the bag becomes the next piece; nothing else draws from the
\* bag or exchanges a piece.
C27_NextPieceBecomesActive ==
  /\ [](run = TRUE
          => /\ next_piece.piece_name \in Kinds
             /\ next_piece = Piece(SPAWN_X, SPAWN_Y, next_piece.piece_name)
             /\ (turn - 1 + 2 + Len(bag_of_keys)) % Len(all_keys) = 0)
  /\ [][IF turn' # turn
        THEN /\ current_piece' \in {next_piece, [next_piece EXCEPT !.y = @ + 1]}
             /\ bag_of_keys # <<>>
                  => /\ next_piece'.piece_name = bag_of_keys[Len(bag_of_keys)]
                     /\ bag_of_keys' = SubSeq(bag_of_keys, 1, Len(bag_of_keys) - 1)
        ELSE /\ next_piece' = next_piece
             /\ bag_of_keys' = bag_of_keys
             /\ current_piece'.piece_name = current_piece.piece_name]_vars

\* the third piece of a game has just become active: it is the fourth draw
\* that waits as the next piece
C27_Witness ==
  /\ run = TRUE
  /\ turn = 3
  /\ Len(bag_of_keys) = Len(all_keys) - 4
  /\ current_piece.y \in {SPAWN_Y, SPAWN_Y + 1}

\* C28: a press of Down that moves the piece one row down sets the fall
\* timer to 0, and one that is rejected leaves the fall timer as it was.
C28_SoftDropResetsFallTime ==
  [][key_down => IF current_piece'.y = current_piece.y + 1
                 THEN fall_time' = 0
                 ELSE fall_time' = fall_time]_vars

\* C29: locked_positions changes only in a frame that locks a piece, where
\* it becomes what baking the piece and clearing the full rows leave: a
\* frame that locks nothing and every key press, accepted or rejected,
\* leave every locked cell as it was.
C29_BoardChangesOnlyAtLock ==
  [][/\ locked_positions' # locked_positions
          => /\ change_piece
             /\ turn' = turn + 1
             /\ \E dt \in Durations, shuffled \in GameShuffles : tick(dt, shuffled)
     /\ (\/ ~change_piece
         \/ key_left \/ key_right \/ key_down \/ key_hard_drop
         \/ key_rotate_clockwise \/ key_rotate_counterclockwise
         \/ key_rotate_180)
          => locked_positions' = locked_positions]_vars

\* the second piece rests on the first, which is locked below it, with no
\* lock decided: keys are followed, a press of Down is rejected here, and
\* the board holds the first piece only
C29_Witness ==
  /\ turn = 2
  /\ run = TRUE
  /\ ~change_piece
  /\ lock_delay = 0
  /\ cannot_descend
  /\ Cardinality(DOMAIN locked_positions) = 4
  /\ \E pos \in convert_shape_format(current_piece) :
        <<pos[1], pos[2] + 1>> \in DOMAIN locked_positions

\* C30: a game started after an earlier game has ended begins at a pool
\* boundary: its first 7 draws hold every kind exactly once, however many
\* pieces the earlier game drew.
C30_SecondGameStartsAtPoolBoundary ==
  (run = FALSE /\ Len(replay.drawn) = Len(all_keys))
     => \A key \in Kinds : Occurrences(replay.drawn, key) = 1

\* C31: every draw returns the last key of the current pool.  A draw that
\* empties the current pool installs the next pool, as it was held before
\* that draw and in its order, as the current pool (so the 7 draws that
\* follow pop its keys from the end, one by one), and a permutation of the
\* 7 kinds as the new next pool; any other draw leaves the next pool alone.
C31_NextPoolBecomesCurrent ==
  [][(result.impl = "og_tetris.py" /\ turn' = turn + 1)
       => /\ result'.returned = current_bag[Len(current_bag)]
          /\ IF Len(current_bag) = 1
             THEN /\ current_bag' = next_bag
                  /\ Len(next_bag') = Len(all_keys)
                  /\ \A key \in Kinds : Occurrences(next_bag', key) = 1
             ELSE /\ current_bag' = SubSeq(current_bag, 1, Len(current_bag) - 1)
                  /\ next_bag' = next_bag]_vars

\* the 14th draw has emptied the second pool: the pool that was held as
\* next while it was drawn is now current, and a different one is held
C31_Witness ==
  /\ result.impl = "og_tetris.py"
  /\ turn - 1 = 2 * Len(all_keys)
  /\ Len(current_bag) = Len(all_keys)
  /\ current_bag # next_bag

\* the cells, within its bounding box, of the mask the code uses for the
\* piece: convert_shape_format in tetris.py, piece.image[...] in
\* og_tetris.py
UsedMask(piece) ==
  IF result.impl = "tetris.py"
  THEN {<<pos[2] - piece.y + 4, pos[1] - piece.x + 2>> :
           pos \in convert_shape_format(piece)}
  ELSE {ij \in ImageCells(image(piece)) :
           image(piece)[ij[1] + 1][ij[2] + 1] # PLAY_COLOUR}

\* the state of the catalog whose number differs from r by a multiple of 4
StateOf(r) ==
  CHOOSE k \in 0..3 : \E q \in (-RotRange - 1)..(RotRange + 1) : r = 4 * q + k

\* C32: for every rotation counter r that rotate intents reach, negative
\* ones and those above 3 included, the mask used for the piece is state
\* r mod 4 of its kind, a state in 0..3; counterclockwise from rotation 0
\* uses state 3; four Rotate Clockwise in a row, and two Rotate 180 in a
\* row, all accepted, bring the piece back to the mask it had.
C32_MaskIsRotationModFour ==
  LET kind == current_piece.piece_name
      r    == current_piece.rotation
  IN  /\ UsedMask(current_piece) = FilledCells(shapes[kind].rotations[StateOf(r) + 1])
      /\ (next_piece.rotation = 0 /\ drawn = <<"Rotate Counterclockwise">>)
            => /\ r = -1
               /\ UsedMask(current_piece) = FilledCells(shapes[kind].rotations[4])
      /\ drawn = <<"Rotate Clockwise", "Rotate Clockwise",
                   "Rotate Clockwise", "Rotate Clockwise">>
            => /\ r = next_piece.rotation + 4
               /\ UsedMask(current_piece) = UsedMask(next_piece)
      /\ drawn = <<"Rotate 180", "Rotate 180">>
            => /\ r \in {next_piece.rotation - 4, next_piece.rotation + 4}
               /\ UsedMask(current_piece) = UsedMask(next_piece)

\* four clockwise presses in a row have taken a T piece from a negative
\* rotation counter, through 0, to a positive one
C32_Witness ==
  /\ drawn = <<"Rotate Clockwise", "Rotate Clockwise",
               "Rotate Clockwise", "Rotate Clockwise">>
  /\ next_piece.rotation = -2
  /\ current_piece.rotation = 2
  /\ current_piece.piece_name = "T"

\* C33: a piece is baked into the board only where it rests: in the frame
\* that locks it, the position one row below the piece that is baked is
\* not valid, also when intents were handled after the gravity step that
\* decided the lock.
C33_LockedWhereItRests ==
  [][turn' # turn => cannot_descend]_vars

\* C34: cells are conserved: a lock adds the 4 cells of the piece and a
\* row clear takes away the 10 cells of every full row and no other cell,
\* so that the occupied cells are 4 times the pieces locked minus 10 times
\* the rows cleared.
C34_CellsAreConserved ==
  [][/\ (result.impl = "tetris.py" /\ result'.op = "clear_rows")
          => Cardinality(DOMAIN locked_positions')
               = Cardinality(DOMAIN locked_positions)
                   - GRID_WIDTH * Cardinality(full_rows(create_grid(locked_positions)))
     /\ (/\ result.impl = "tetris.py" /\ result'.op = "lock_block"
         /\ full_rows(create_grid(locked_positions)) = {})
          => LET baked == lock(locked_positions, current_piece')
             IN  Cardinality(DOMAIN locked_positions')
                   = Cardinality(DOMAIN locked_positions) + 4
                       - GRID_WIDTH * Cardinality(full_rows(create_grid(baked)))
     /\ (result.impl = "og_tetris.py" /\ result'.op = "lock")
          => Cardinality(og_locked_cells(matrix'))
               = Cardinality(og_locked_cells(matrix)) + 4
     /\ (result.impl = "og_tetris.py" /\ result'.op \in {"clear_rows", "add_score"})
          => Cardinality(og_locked_cells(matrix'))
               = Cardinality(og_locked_cells(matrix))
                   - MATRIX_WIDTH * Cardinality(og_full_rows(matrix))]_vars

\* C35: when a lock step is over (the piece baked into a board that had no
\* full row, the rows cleared) the board holds no row with all its 10 cells
\* occupied, and a second row clear on it would clear nothing.
C35_NoFullRowAfterLock ==
  [][/\ (/\ result.impl = "tetris.py" /\ result'.op = "lock_block"
         /\ full_rows(create_grid(locked_positions)) = {})
          => /\ full_rows(create_grid(locked_positions')) = {}
             /\ clear_rows(create_grid(locked_positions'), locked_positions').inc = 0
     /\ (result.impl = "og_tetris.py" /\ result'.op \in {"clear_rows", "add_score"})
          => /\ og_full_rows(matrix') = {}
             /\ og_clear_rows(matrix').matrix = matrix']_vars

\* C36: one lock clears at most 4 rows, every row it clears holds a cell of
\* the piece just locked, and the score rises by at most 40.
C36_ClearedRowsHoldThePiece ==
  [][/\ (result.impl = "tetris.py" /\ result'.op = "lock_block")
          => LET baked   == lock(locked_positions, current_piece')
                 cleared == full_rows(create_grid(baked))
             IN  /\ Cardinality(cleared) <= 4
                 /\ \A i \in cleared :
                       \E pos \in convert_shape_format(current_piece') : pos[2] = i
                 /\ score' <= score + 40
     /\ (/\ result.impl = "og_tetris.py" /\ result.op = "lock"
         /\ result'.op \in {"clear_rows", "add_score"})
          => /\ Cardinality(og_full_rows(matrix)) <= 4
             /\ \A r \in og_full_rows(matrix) :
                   \E rc \in og_piece_cells(current_piece) : rc[1] = r - 1
             /\ score' <= score + 40]_vars

box_rows(piece) ==
  {PyIndex(piece.y + ij[1], MATRIX_HEIGHT) : ij \in ImageCells(image(piece))}

====
